---- MODULE Spec2Model ----
(***************************************************************************)
(* State-machine model of the TFT statistics repository:                   *)
(*   - build_db.make_items_key            (the canonical loadout key)      *)
(*   - build_db.main / ingest_one_match   (raw JSON files -> SQLite store) *)
(*   - build_stats_item{1,2,3}.main       (the three aggregators)          *)
(*   - run_pipeline.main                  (the order the scripts run in)   *)
(*   - fetch_matches_10k / fetch_data     (the crawlers and get_json)      *)
(*                                                                         *)
(* Strings are sequences of character codes, so that joining and splitting *)
(* on the separator are real operations.  A null text column is NULL; an   *)
(* optional number is None or Some(n); a mean is an exact rational         *)
(* <<numerator, denominator>>, or None for SQL NULL.                       *)
(***************************************************************************)
EXTENDS Integers, Sequences, FiniteSets, Bags, TLC

VARIABLES
    \* ---- harness of make_items_key
    itemsA, itemsB,     \* the two argument lists
    keyA, keyB,         \* the keys returned for them (None before the call)
    \* ---- raw directory, SQLite store, pipeline
    rawDir,             \* files present in RAW_DIR
    matches,            \* table matches      (set of rows, PK match_id)
    player_match,       \* table player_match (set of rows, PK match_id, puuid)
    unit_item,          \* table unit_item    (bag of rows: no key)
    unit_loadout,       \* table unit_loadout (set of rows, PK = whole row)
    stats1, stats2, stats3,  \* champ_item{1,2,3}_stats
    step,               \* position of run_pipeline.main in STEPS
    exitOf,             \* exit status of each script since build_db last ran
    ingested,           \* files build_db.main ingested in its last run
    runs, changes,      \* pipeline runs and raw-directory changes so far
    \* ---- harness of get_json
    helper,             \* the script whose get_json is called
    responses,          \* what the upstream will answer, in order
    answered,           \* the responses get_json has received so far
    slept,              \* the seconds it slept after each of them
    observed,           \* what the caller got (None while the call runs)
    \* ---- fetch_matches_10k.main: the process
    pc,                 \* position in main, or how the last run ended
    seen, puuids, puuid_idx, page_start,   \* its locals
    match_ids, mi,      \* the page being processed, position of the for loop
    saving,             \* the call of save_json under way (None: none)
    \* ---- fetch_matches_10k.main: the files
    seenFile,           \* SEEN_PATH  (None: no file)
    stateFile,          \* STATE_PATH (None: no file)
    tmpSeen, tmpState,  \* the temporary files of save_json (None: no file)
    raw10k,             \* match ids with a file in RAW_DIR
    \* ---- fetch_matches_10k.main: history
    faults,             \* interruptions and failed requests so far
    fetched,            \* bag: how often the detail request of a match id succeeded
    fetchedBefore,      \* the ids fetched when the process was last killed
    failed              \* match ids whose detail request raised on this page

keyVars == <<itemsA, itemsB, keyA, keyB>>
dbTables == <<matches, player_match, unit_item, unit_loadout>>
statTables == <<stats1, stats2, stats3>>
dbVars == <<rawDir, dbTables, statTables, step, exitOf, ingested, runs, changes>>
getVars == <<helper, responses, answered, slept, observed>>
localVars == <<seen, puuids, puuid_idx, page_start, match_ids, mi>>
memVars == <<localVars, saving>>
diskFiles == <<seenFile, stateFile, tmpSeen, tmpState>>
diskVars == <<diskFiles, raw10k>>
histVars == <<faults, fetched, fetchedBefore, failed>>
crawlVars == <<pc, memVars, diskVars, histVars>>
vars == <<keyVars, dbVars, getVars, crawlVars>>

NULL == "NULL"          \* a null text value
None == <<>>            \* an absent number or result
Some(v) == <<v>>

-----------------------------------------------------------------------------
(* Strings                                                                 *)

\* "|" : the separator of build_db.make_items_key and of the aggregators' split
SEP == 124

\* Python's str < str: lexicographic on code points, a proper prefix is smaller
RECURSIVE StrLess(_, _)
StrLess(s, t) ==
    IF t = <<>> THEN FALSE
    ELSE IF s = <<>> THEN TRUE
    ELSE IF Head(s) # Head(t) THEN Head(s) < Head(t)
    ELSE StrLess(Tail(s), Tail(t))

\* insertion of x into an already sorted list, after the elements <= x
RECURSIVE InsertSorted(_, _)
InsertSorted(x, s) ==
    IF s = <<>> THEN <<x>>
    ELSE IF StrLess(x, Head(s)) THEN <<x>> \o s
    ELSE <<Head(s)>> \o InsertSorted(x, Tail(s))

\* sorted with a fault: the list is left in its original order
sorted_unsorted(items) == items

\* Python's sorted(list of str)
RECURSIVE sorted(_)
sorted(items) ==
    IF items = <<>> THEN <<>>
    ELSE InsertSorted(Head(items), sorted(Tail(items)))

\* "|".join(parts)
RECURSIVE join(_)
join(parts) ==
    IF parts = <<>> THEN <<>>
    ELSE IF Len(parts) = 1 THEN Head(parts)
    ELSE Head(parts) \o <<SEP>> \o join(Tail(parts))

\* s.split("|"): always at least one part; "" splits to [""]
RECURSIVE SplitFrom(_, _)
SplitFrom(s, cur) ==
    IF s = <<>> THEN <<cur>>
    ELSE IF Head(s) = SEP THEN <<cur>> \o SplitFrom(Tail(s), <<>>)
    ELSE SplitFrom(Tail(s), Append(cur, Head(s)))

split(s) == SplitFrom(s, <<>>)

\* build_db.make_items_key
make_items_key(items) ==
    IF items = <<>> THEN <<>>
    ELSE join(sorted(items))

-----------------------------------------------------------------------------
(* Harness of make_items_key: two argument lists drawn from bounded sets   *)

\* item identifiers of the harness: "", "a", "b", "ab" (none contains "|")
HarnessIds == { <<>>, <<97>>, <<98>>, <<97, 98>> }

\* longest argument list of the harness
MaxItems == 2

SeqsUpTo(S, n) == UNION { [1..k -> S] : k \in 0..n }

\* the multiset of a list
BagOfSeq(s) == [x \in {s[i] : i \in DOMAIN s} |-> Cardinality({i \in DOMAIN s : s[i] = x})]

KeyInit ==
    /\ itemsA \in SeqsUpTo(HarnessIds, MaxItems)
    /\ itemsB \in SeqsUpTo(HarnessIds, MaxItems)
    /\ keyA = None
    /\ keyB = None

KeyIdle ==
    /\ itemsA = <<>> /\ itemsB = <<>> /\ keyA = None /\ keyB = None

CallMakeItemsKey ==
    /\ keyA = None
    /\ keyA' = Some(make_items_key(itemsA))
    /\ keyB' = Some(make_items_key(itemsB))
    /\ UNCHANGED <<itemsA, itemsB, dbVars, getVars, crawlVars>>

-----------------------------------------------------------------------------
(* Raw match documents                                                     *)

\* Item identifiers, abbreviated to one or two characters:
\*   "X", "Y"  two completed items
\*   "B"       TFT_Item_BFSword            (a component in all three scripts)
\*   "TT"      TFT_Item_TearOfTheGoddess   (the spelling of build_stats_item2)
\*   "Tt"      TFT_Item_TearOftheGoddess   (the spelling of item1 and item3)
ItemX == <<88>>
ItemY == <<89>>
BFSword == <<66>>
TearOfTheGoddess == <<84, 84>>
TearOftheGoddess == <<84, 116>>

\* the exclusion lists (the seven other components behave as BFSword does)
COMPONENTS_item1 == {BFSword, TearOftheGoddess}
BASIC_COMPONENTS == {BFSword, TearOfTheGoddess}
COMPONENTS_item3 == {BFSword, TearOftheGoddess}

MISSING == "MISSING"    \* the puuid of a participant object without that key

Unit(champ, tier, items) ==
    [character_id |-> champ, tier |-> tier, itemNames |-> items]

Participant(puuid, placement, units) ==
    [puuid |-> puuid, placement |-> placement, riotIdGameName |-> puuid,
     riotIdTagline |-> "NA1", units |-> units]

\* a raw file: file is the position of its name in sorted order, parses says
\* whether json.load succeeds, keys are the top-level keys of the document
Doc(file, mid, patch, parts) ==
    [file |-> file, parses |-> TRUE,
     keys |-> {"metadata", "info"} \cup (IF patch = NULL THEN {} ELSE {"_derived"}),
     metadata |-> [match_id |-> mid],
     info |-> [game_datetime |-> 1000 + file, game_version |-> "v16",
               tft_set_number |-> 16, participants |-> parts],
     derived |-> [patch_bucket |-> patch]]

\* The raw documents the raw directory may hold.  Documents 1 and 8 are two
\* downloads of the same match, saved under the same file name.
RawDocs == <<
    \* 1: patch P1, one champion C with [X, Y], placement 2
    Doc(1, "M1", "P1", << Participant("a", Some(2), << Unit("C", 1, <<ItemX, ItemY>>) >>) >>),
    \* 2: patch P1, champion C with the same two items in the other order, placement 6
    Doc(2, "M2", "P1", << Participant("a", Some(6), << Unit("C", 1, <<ItemY, ItemX>>) >>) >>),
    \* 3: a participant record without "puuid", after a well-formed participant
    Doc(3, "M7", "P1", << Participant("a", Some(2), << Unit("C", 1, <<ItemX>>) >>),
                          Participant(MISSING, Some(3), << Unit("D", 1, <<ItemY>>) >>) >>),
    \* 4: one unit [X, X, Y]; a participant fielding D three times, two units equal
    Doc(4, "M3", "P1", << Participant("a", Some(3), << Unit("C", 1, <<ItemX, ItemX, ItemY>>) >>),
                          Participant("b", Some(5), << Unit("D", 1, <<ItemX, ItemY>>),
                                                 Unit("D", 2, <<ItemY, BFSword, ItemX>>),
                                                 Unit("D", 2, <<ItemY, BFSword, ItemX>>) >>) >>),
    \* 5: no _derived block: patch_bucket is null
    Doc(5, "M4", NULL, << Participant("a", Some(1), << Unit("C", 1, <<ItemX, ItemY>>) >>) >>),
    \* 6: patch P2; the Tear item in Riot's spelling; a unit without items
    Doc(6, "M5", "P2", << Participant("a", Some(8), << Unit("C", 2, <<TearOfTheGoddess, ItemX, ItemY>>) >>),
                          Participant("b", Some(4), << Unit("C", 1, <<>>) >>) >>),
    \* 7: a participant without "placement"
    Doc(7, "M6", "P1", << Participant("a", None, << Unit("C", 1, <<ItemX, ItemY, ItemY>>) >>) >>),
    \* 8: match M1 downloaded again, with another derived patch bucket
    Doc(1, "M1", "P2", << Participant("a", Some(2), << Unit("C", 1, <<ItemX, ItemY>>) >>) >>)
>>

DocIds == DOMAIN RawDocs

\* sorted(glob(RAW_DIR/*.json)): the documents of a directory in file-name order
RECURSIVE SortedFiles(_)
SortedFiles(dir) ==
    IF dir = {} THEN <<>>
    ELSE LET d == CHOOSE x \in dir : \A y \in dir : RawDocs[x].file <= RawDocs[y].file
         IN <<d>> \o SortedFiles(dir \ {d})

-----------------------------------------------------------------------------
(* build_db: the relational normalizer                                     *)

\* the four tables as one value
Store == [matches |-> matches, player_match |-> player_match,
          unit_item |-> unit_item, unit_loadout |-> unit_loadout]

EmptyStore == [matches |-> {}, player_match |-> {},
               unit_item |-> EmptyBag, unit_loadout |-> {}]

\* INSERT OR IGNORE INTO matches: ignored when the match_id is present
InsertMatch(s, row) ==
    IF \E r \in s.matches : r.match_id = row.match_id THEN s
    ELSE [s EXCEPT !.matches = @ \cup {row}]

\* INSERT OR IGNORE INTO player_match: ignored when (match_id, puuid) is present
InsertPlayerMatch(s, row) ==
    IF \E r \in s.player_match : r.match_id = row.match_id /\ r.puuid = row.puuid
    THEN s
    ELSE [s EXCEPT !.player_match = @ \cup {row}]

\* INSERT OR IGNORE INTO unit_loadout: all five columns are the primary key
InsertUnitLoadout(s, row) == [s EXCEPT !.unit_loadout = @ \cup {row}]

\* INSERT INTO unit_item: the table has no key, every insert adds a row
InsertUnitItem(s, row) == [s EXCEPT !.unit_item = @ (+) SetToBag({row})]

\* the inner loop "for item_name in items"
RECURSIVE InsertItems(_, _, _, _, _)
InsertItems(s, mid, puuid, u, items) ==
    IF items = <<>> THEN s
    ELSE InsertItems(
            InsertUnitItem(s, [match_id |-> mid, puuid |-> puuid,
                               champion_id |-> u.character_id, unit_tier |-> u.tier,
                               item_name |-> Head(items)]),
            mid, puuid, u, Tail(items))

\* InsertUnits with a fault: a unit without items is skipped
RECURSIVE InsertUnits_skipping_naked(_, _, _, _)
InsertUnits_skipping_naked(s, mid, puuid, units) ==
    IF units = <<>> THEN s
    ELSE LET u == Head(units)
             s1 == InsertUnitLoadout(s, [match_id |-> mid, puuid |-> puuid,
                                         champion_id |-> u.character_id,
                                         unit_tier |-> u.tier,
                                         items_key |-> make_items_key(u.itemNames)])
             s2 == InsertItems(s1, mid, puuid, u, u.itemNames)
         IN InsertUnits_skipping_naked(IF u.itemNames = <<>> THEN s ELSE s2,
                                       mid, puuid, Tail(units))

\* the loop "for u in p.get('units', []) or []"
RECURSIVE InsertUnits(_, _, _, _)
InsertUnits(s, mid, puuid, units) ==
    IF units = <<>> THEN s
    ELSE LET u == Head(units)
             s1 == InsertUnitLoadout(s, [match_id |-> mid, puuid |-> puuid,
                                         champion_id |-> u.character_id,
                                         unit_tier |-> u.tier,
                                         items_key |-> make_items_key(u.itemNames)])
             s2 == InsertItems(s1, mid, puuid, u, u.itemNames)
         IN InsertUnits(s2, mid, puuid, Tail(units))

\* the loop "for p in info.get('participants', [])"; p["puuid"] raises KeyError
\* when the key is missing, with the rows inserted so far still in the transaction
RECURSIVE InsertParticipants(_, _, _)
InsertParticipants(s, mid, parts) ==
    IF parts = <<>> THEN [raised |-> FALSE, store |-> s]
    ELSE LET p == Head(parts) IN
         IF p.puuid = MISSING THEN [raised |-> TRUE, store |-> s]
         ELSE LET s1 == InsertPlayerMatch(s, [match_id |-> mid, puuid |-> p.puuid,
                                              placement |-> p.placement,
                                              riot_id_game_name |-> p.riotIdGameName,
                                              riot_id_tag_line |-> p.riotIdTagline])
              IN InsertParticipants(InsertUnits(s1, mid, p.puuid, p.units), mid, Tail(parts))

\* the statements of ingest_one_match before conn.commit()
IngestRows(s, doc) ==
    IF "metadata" \notin doc.keys \/ "info" \notin doc.keys
    THEN [raised |-> TRUE, store |-> s]
    ELSE LET mid == doc.metadata.match_id
             patch == IF "_derived" \notin doc.keys THEN NULL ELSE doc.derived.patch_bucket
             s1 == InsertMatch(s, [match_id |-> mid,
                                   game_datetime |-> doc.info.game_datetime,
                                   patch_bucket |-> patch,
                                   game_version |-> doc.info.game_version,
                                   tft_set_number |-> doc.info.tft_set_number])
         IN InsertParticipants(s1, mid, doc.info.participants)

\* ingest_one_match: conn.commit() is reached only when nothing raised; the
\* exception is not caught anywhere, so the open transaction is rolled back
ingest_one_match(s, doc) ==
    LET r == IngestRows(s, doc)
    IN IF r.raised THEN [raised |-> TRUE, store |-> s]
       ELSE [raised |-> FALSE, store |-> r.store]

\* the loop of build_db.main over the sorted files: json.load, ingest_one_match,
\* ingested += 1; the first exception ends the loop and the program
RECURSIVE IngestFiles(_, _, _)
IngestFiles(s, files, done) ==
    IF files = <<>> THEN [raised |-> FALSE, store |-> s, ingested |-> done]
    ELSE LET doc == RawDocs[Head(files)] IN
         IF ~doc.parses THEN [raised |-> TRUE, store |-> s, ingested |-> done]
         ELSE LET r == ingest_one_match(s, doc) IN
              IF r.raised THEN [raised |-> TRUE, store |-> s, ingested |-> done]
              ELSE IngestFiles(r.store, Tail(files), Append(done, Head(files)))

\* WIPE_DB = False
WIPE_DB == FALSE

\* build_db.main on a raw directory and a store: RuntimeError when no file is
\* found, then every file in sorted order
build_db_main(s, dir) ==
    IF dir = {} THEN [raised |-> TRUE, store |-> s, ingested |-> <<>>]
    ELSE IngestFiles(IF WIPE_DB THEN EmptyStore ELSE s, SortedFiles(dir), <<>>)

-----------------------------------------------------------------------------
(* build_stats_item1/2/3: what the three scripts share                     *)

\* the characters str.strip() removes
Whitespace == {9, 10, 11, 12, 13, 32}

RECURSIVE LStrip(_)
LStrip(s) == IF s # <<>> /\ Head(s) \in Whitespace THEN LStrip(Tail(s)) ELSE s

RECURSIVE RStrip(_)
RStrip(s) ==
    IF s # <<>> /\ s[Len(s)] \in Whitespace THEN RStrip(SubSeq(s, 1, Len(s) - 1)) ELSE s

\* str.strip()
strip(s) == RStrip(LStrip(s))

\* exact rationals <<numerator, denominator>>, denominator > 0
RatSub(p, q) == <<p[1] * q[2] - q[1] * p[2], p[2] * q[2]>>
RatEq(p, q) == p[1] * q[2] = q[1] * p[2]
RatLess(p, q) == p[1] * q[2] < q[1] * p[2]

RECURSIVE SumOver(_, _)
SumOver(S, f) ==
    IF S = {} THEN 0
    ELSE LET x == CHOOSE y \in S : TRUE IN f[x] + SumOver(S \ {x}, f)

\* v_champ_games with a fault: the GROUP BY is dropped, one row per loadout row
v_champ_games_ungrouped(s) ==
    { [patch_bucket |-> m.patch_bucket, champion_id |-> ul.champion_id,
       match_id |-> ul.match_id, puuid |-> ul.puuid,
       unit_tier |-> ul.unit_tier, items_key |-> ul.items_key] :
      <<ul, m>> \in { x \in s.unit_loadout \X s.matches :
                        x[2].match_id = x[1].match_id /\ x[2].patch_bucket # NULL } }

\* v_champ_games with a fault: the WHERE clause is missing
v_champ_games_any_patch(s) ==
    { [patch_bucket |-> m.patch_bucket, champion_id |-> ul.champion_id,
       match_id |-> ul.match_id, puuid |-> ul.puuid] :
      <<ul, m>> \in { x \in s.unit_loadout \X s.matches : x[2].match_id = x[1].match_id } }

\* TEMP VIEW v_champ_games: unit_loadout JOIN matches WHERE patch_bucket IS NOT
\* NULL GROUP BY patch_bucket, champion_id, match_id, puuid
v_champ_games(s) ==
    { [patch_bucket |-> m.patch_bucket, champion_id |-> ul.champion_id,
       match_id |-> ul.match_id, puuid |-> ul.puuid] :
      <<ul, m>> \in { x \in s.unit_loadout \X s.matches :
                        x[2].match_id = x[1].match_id /\ x[2].patch_bucket # NULL } }

\* TEMP VIEW v_champ_baseline: v_champ_games JOIN player_match GROUP BY
\* patch_bucket, champion_id; COUNT(*) counts every joined row, AVG skips NULLs
v_champ_baseline(s) ==
    LET cgs == v_champ_games(s)
        joined == { x \in cgs \X s.player_match :
                      x[2].match_id = x[1].match_id /\ x[2].puuid = x[1].puuid }
        groups == { <<x[1].patch_bucket, x[1].champion_id>> : x \in joined }
        of(g) == { x \in joined : x[1].patch_bucket = g[1] /\ x[1].champion_id = g[2] }
        known(g) == { x \in of(g) : x[2].placement # None }
    IN { [patch_bucket |-> g[1], champion_id |-> g[2],
          n_games |-> Cardinality(of(g)),
          baseline_avg_place |->
              IF known(g) = {} THEN None
              ELSE <<SumOver(known(g), [x \in known(g) |-> x[2].placement[1]]),
                     Cardinality(known(g))>>] : g \in groups }

\* the SELECT that pulls the rows: unit_loadout JOIN matches JOIN player_match
\* WHERE patch_bucket IS NOT NULL (one result row per unit_loadout row)
PulledRows(s) ==
    { [patch_bucket |-> x[2].patch_bucket, champion_id |-> x[1].champion_id,
       match_id |-> x[1].match_id, puuid |-> x[1].puuid,
       unit_tier |-> x[1].unit_tier,
       items_key |-> x[1].items_key, placement |-> x[3].placement] :
      x \in { y \in s.unit_loadout \X s.matches \X s.player_match :
                /\ y[2].match_id = y[1].match_id
                /\ y[2].patch_bucket # NULL
                /\ y[3].match_id = y[1].match_id
                /\ y[3].puuid = y[1].puuid } }

\* seen, count_games, sum_place, sum_top4; raised: float(None) or int(None)
EmptyAcc == [seen |-> {}, count_games |-> <<>>, sum_place |-> <<>>,
             sum_top4 |-> <<>>, raised |-> FALSE]

Bump(f, k, d) == IF k \in DOMAIN f THEN [f EXCEPT ![k] = @ + d] ELSE f @@ (k :> d)

\* Accumulate with a fault: the "if game_key in seen: continue" is missing
Accumulate_no_dedup(acc, row, combo) ==
    LET k == <<row.patch_bucket, row.champion_id, combo>> IN
    IF acc.raised THEN acc
    ELSE IF row.placement = None THEN [acc EXCEPT !.raised = TRUE]
    ELSE [acc EXCEPT !.count_games = Bump(@, k, 1),
                     !.sum_place = Bump(@, k, row.placement[1]),
                     !.sum_top4 = Bump(@, k, IF row.placement[1] <= 4 THEN 1 ELSE 0)]

\* the body of the innermost loop: skip a game_key already seen, else count it;
\* float(placement) raises TypeError when placement is None
Accumulate(acc, row, combo) ==
    LET game_key == <<row.patch_bucket, row.champion_id, row.match_id, row.puuid, combo>>
        k == <<row.patch_bucket, row.champion_id, combo>>
    IN IF acc.raised THEN acc
       ELSE IF game_key \in acc.seen THEN acc
       ELSE IF row.placement = None THEN [acc EXCEPT !.raised = TRUE]
       ELSE [acc EXCEPT !.seen = @ \cup {game_key},
                        !.count_games = Bump(@, k, 1),
                        !.sum_place = Bump(@, k, row.placement[1]),
                        !.sum_top4 = Bump(@, k, IF row.placement[1] <= 4 THEN 1 ELSE 0)]

\* JoinBaseline with a fault: the join is on champion_id alone
JoinBaseline_any_patch(acc, s) ==
    { [patch_bucket |-> k[1], champion_id |-> k[2], items |-> k[3],
       n_games |-> acc.count_games[k],
       avg_place |-> <<acc.sum_place[k], acc.count_games[k]>>,
       top4_rate |-> <<acc.sum_top4[k], acc.count_games[k]>>,
       baseline_avg_place |-> b.baseline_avg_place,
       delta |-> IF b.baseline_avg_place = None THEN None
                 ELSE RatSub(<<acc.sum_place[k], acc.count_games[k]>>, b.baseline_avg_place)] :
      <<k, b>> \in { x \in (DOMAIN acc.count_games) \X v_champ_baseline(s) :
                       x[2].champion_id = x[1][2] } }

\* insert_rows (avg_place = sum / n, top4_rate = sum_top4 / n), then the INSERT
\* ... SELECT that joins the temp table to v_champ_baseline on patch_bucket and
\* champion_id and computes delta = avg_place - baseline_avg_place
JoinBaseline(acc, s) ==
    { [patch_bucket |-> k[1], champion_id |-> k[2], items |-> k[3],
       n_games |-> acc.count_games[k],
       avg_place |-> <<acc.sum_place[k], acc.count_games[k]>>,
       top4_rate |-> <<acc.sum_top4[k], acc.count_games[k]>>,
       baseline_avg_place |-> b.baseline_avg_place,
       delta |-> IF b.baseline_avg_place = None THEN None
                 ELSE RatSub(<<acc.sum_place[k], acc.count_games[k]>>, b.baseline_avg_place)] :
      <<k, b>> \in { x \in (DOMAIN acc.count_games) \X v_champ_baseline(s) :
                       x[2].patch_bucket = x[1][1] /\ x[2].champion_id = x[1][2] } }

\* the items column of a stats table is the tuple (item_name,), (item1, item2)
\* or (item1, item2, item3)

-----------------------------------------------------------------------------
(* build_stats_item1                                                       *)

is_full_item1(item) == item # <<>> /\ item \notin COMPONENTS_item1

\* items = [it for it in items_key.split("|") if is_full_item(it)]
FullItems1(items_key) == SelectSeq(split(items_key), is_full_item1)

\* for item in set(items): ...
RECURSIVE ForItems1(_, _, _)
ForItems1(acc, row, itemset) ==
    IF itemset = {} THEN acc
    ELSE LET item == CHOOSE i \in itemset : TRUE
         IN ForItems1(Accumulate(acc, row, <<item>>), row, itemset \ {item})

RowBody1(acc, row) ==
    IF row.items_key = <<>> THEN acc
    ELSE LET items == FullItems1(row.items_key) IN
         IF items = <<>> THEN acc
         ELSE ForItems1(acc, row, {items[i] : i \in DOMAIN items})


-----------------------------------------------------------------------------
(* build_stats_item2                                                       *)

is_full_item2(item) == item # <<>> /\ item \notin BASIC_COMPONENTS

canon_item2(a, b) == sorted(<<a, b>>)

NonBlank(it) == it # <<>> /\ strip(it) # <<>>

\* raw_items = [it.strip() for it in items_key.split("|") if it and it.strip()]
\* items = [it for it in raw_items if is_full_item(it)]
FullItems2(items_key) ==
    LET kept == SelectSeq(split(items_key), NonBlank)
        raw_items == [i \in DOMAIN kept |-> strip(kept[i])]
    IN SelectSeq(raw_items, is_full_item2)

\* ForPairs with a fault: the inner loop starts at i, pairing a slot with itself
RECURSIVE ForPairs_from_i(_, _, _, _, _)
ForPairs_from_i(acc, row, items, i, j) ==
    IF i > Len(items) THEN acc
    ELSE IF j > Len(items) THEN ForPairs_from_i(acc, row, items, i + 1, i + 1)
    ELSE ForPairs_from_i(Accumulate(acc, row, canon_item2(items[i], items[j])),
                         row, items, i, j + 1)

\* for i in range(len(items)): for j in range(i + 1, len(items)): ...
RECURSIVE ForPairs(_, _, _, _, _)
ForPairs(acc, row, items, i, j) ==
    IF i > Len(items) THEN acc
    ELSE IF j > Len(items) THEN ForPairs(acc, row, items, i + 1, i + 2)
    ELSE ForPairs(Accumulate(acc, row, canon_item2(items[i], items[j])),
                  row, items, i, j + 1)

RowBody2(acc, row) ==
    IF row.placement = None THEN acc
    ELSE IF row.items_key = <<>> THEN acc
    ELSE LET items == FullItems2(row.items_key) IN
         IF Len(items) < 2 THEN acc
         ELSE ForPairs(acc, row, items, 1, 2)


-----------------------------------------------------------------------------
(* build_stats_item3                                                       *)

is_full_item3(item) == item # <<>> /\ item \notin COMPONENTS_item3

canon_item3(a, b, c) == sorted(<<a, b, c>>)

FullItems3(items_key) == SelectSeq(split(items_key), is_full_item3)

\* for i in range(L): for j in range(i + 1, L): for k in range(j + 1, L): ...
RECURSIVE ForTriples(_, _, _, _, _, _)
ForTriples(acc, row, items, i, j, k) ==
    IF i > Len(items) THEN acc
    ELSE IF j > Len(items) THEN ForTriples(acc, row, items, i + 1, i + 2, i + 3)
    ELSE IF k > Len(items) THEN ForTriples(acc, row, items, i, j + 1, j + 2)
    ELSE ForTriples(Accumulate(acc, row, canon_item3(items[i], items[j], items[k])),
                    row, items, i, j, k + 1)

RowBody3(acc, row) ==
    IF row.items_key = <<>> THEN acc
    ELSE LET items == FullItems3(row.items_key) IN
         IF Len(items) < 3 THEN acc
         ELSE ForTriples(acc, row, items, 1, 2, 3)


\* the loop "for ... in rows" of script k (the order SQLite returns the rows in
\* is not specified; the accumulated result does not depend on it)
RECURSIVE ForRows(_, _, _)
ForRows(acc, rows, k) ==
    IF rows = {} THEN acc
    ELSE LET row == CHOOSE r \in rows : TRUE
             next == CASE k = 1 -> RowBody1(acc, row)
                       [] k = 2 -> RowBody2(acc, row)
                       [] k = 3 -> RowBody3(acc, row)
         IN ForRows(next, rows \ {row}, k)

\* build_stats_item1.main: an exception in the loop leaves the table as it was
stats_item1_main(s, old) ==
    LET acc == ForRows(EmptyAcc, PulledRows(s), 1)
    IN IF acc.raised THEN [raised |-> TRUE, table |-> old]
       ELSE [raised |-> FALSE, table |-> JoinBaseline(acc, s)]

\* build_stats_item2.main
stats_item2_main(s, old) ==
    LET acc == ForRows(EmptyAcc, PulledRows(s), 2)
    IN IF acc.raised THEN [raised |-> TRUE, table |-> old]
       ELSE [raised |-> FALSE, table |-> JoinBaseline(acc, s)]

\* build_stats_item3.main
stats_item3_main(s, old) ==
    LET acc == ForRows(EmptyAcc, PulledRows(s), 3)
    IN IF acc.raised THEN [raised |-> TRUE, table |-> old]
       ELSE [raised |-> FALSE, table |-> JoinBaseline(acc, s)]

-----------------------------------------------------------------------------
(* run_pipeline and the raw directory                                      *)

\* pipeline runs and raw-directory changes explored
MaxRuns == 2
MaxChanges == 2

NotRun == [s \in {"build_db", "item1", "item2", "item3"} |-> "not_run"]

DbInit ==
    /\ rawDir = {}
    /\ matches = {}
    /\ player_match = {}
    /\ unit_item = EmptyBag
    /\ unit_loadout = {}
    /\ stats1 = {} /\ stats2 = {} /\ stats3 = {}
    /\ step = "idle"
    /\ exitOf = NotRun
    /\ ingested = <<>>
    /\ runs = 0
    /\ changes = 0

\* a raw file is written (fetch_data, or by hand), replacing a file of that name
PutRaw(d) ==
    /\ step = "idle"
    /\ changes < MaxChanges
    /\ d \notin rawDir
    /\ rawDir' = {x \in rawDir : RawDocs[x].file # RawDocs[d].file} \cup {d}
    /\ changes' = changes + 1
    /\ UNCHANGED <<dbTables, statTables, step, exitOf, ingested, runs, keyVars, getVars, crawlVars>>

\* a raw file is deleted
RemoveRaw(d) ==
    /\ step = "idle"
    /\ changes < MaxChanges
    /\ d \in rawDir
    /\ rawDir' = rawDir \ {d}
    /\ changes' = changes + 1
    /\ UNCHANGED <<dbTables, statTables, step, exitOf, ingested, runs, keyVars, getVars, crawlVars>>

\* run_pipeline.main starts ("Fetch raw matches" is optional; the raw
\* directory changes through PutRaw and RemoveRaw)
StartPipeline ==
    /\ step = "idle"
    /\ runs < MaxRuns
    /\ step' = "build_db"
    /\ exitOf' = NotRun
    /\ runs' = runs + 1
    /\ UNCHANGED <<rawDir, dbTables, statTables, ingested, changes, keyVars, getVars, crawlVars>>

\* whether a script may be launched now: as the pipeline's current step, or on
\* its own ("python build_db.py") while no pipeline is running
MayRun(script) ==
    \/ step = script
    \/ step = "idle" /\ runs < MaxRuns

\* the pipeline's position after a script ended: run_step raises SystemExit on
\* a non-zero exit code; a script launched on its own leaves the pipeline idle
StepAfter(raised, nextStep) ==
    IF step = "idle" \/ raised THEN "idle" ELSE nextStep

RunsAfter == IF step = "idle" THEN runs + 1 ELSE runs

\* python build_db.py
RunBuildDb ==
    /\ MayRun("build_db")
    /\ LET r == build_db_main(Store, rawDir) IN
        /\ matches' = r.store.matches
        /\ player_match' = r.store.player_match
        /\ unit_item' = r.store.unit_item
        /\ unit_loadout' = r.store.unit_loadout
        /\ ingested' = r.ingested
        /\ exitOf' = [NotRun EXCEPT !["build_db"] = IF r.raised THEN "error" ELSE "ok"]
        /\ step' = StepAfter(r.raised, "item1")
    /\ runs' = RunsAfter
    /\ UNCHANGED <<rawDir, statTables, changes, keyVars, getVars, crawlVars>>

\* python build_stats_item1.py
RunStatsItem1 ==
    /\ MayRun("item1")
    /\ LET r == stats_item1_main(Store, stats1) IN
        /\ stats1' = r.table
        /\ exitOf' = [exitOf EXCEPT !["item1"] = IF r.raised THEN "error" ELSE "ok"]
        /\ step' = StepAfter(r.raised, "item2")
    /\ runs' = RunsAfter
    /\ UNCHANGED <<rawDir, dbTables, stats2, stats3, ingested, changes, keyVars, getVars, crawlVars>>

\* python build_stats_item2.py
RunStatsItem2 ==
    /\ MayRun("item2")
    /\ LET r == stats_item2_main(Store, stats2) IN
        /\ stats2' = r.table
        /\ exitOf' = [exitOf EXCEPT !["item2"] = IF r.raised THEN "error" ELSE "ok"]
        /\ step' = StepAfter(r.raised, "item3")
    /\ runs' = RunsAfter
    /\ UNCHANGED <<rawDir, dbTables, stats1, stats3, ingested, changes, keyVars, getVars, crawlVars>>

\* python build_stats_item3.py; the pipeline is complete after it
RunStatsItem3 ==
    /\ MayRun("item3")
    /\ LET r == stats_item3_main(Store, stats3) IN
        /\ stats3' = r.table
        /\ exitOf' = [exitOf EXCEPT !["item3"] = IF r.raised THEN "error" ELSE "ok"]
        /\ step' = "idle"
    /\ runs' = RunsAfter
    /\ UNCHANGED <<rawDir, dbTables, stats1, stats2, ingested, changes, keyVars, getVars, crawlVars>>

-----------------------------------------------------------------------------
(* get_json: the request helper of fetch_matches_10k and of fetch_data     *)

\* statuses the upstream answers with: success, not found, rate limited,
\* service unavailable
Statuses == {200, 404, 429, 503}

\* the Retry-After header of a response: absent, or a number of seconds
RetryAfters == {None, Some(3)}

Responses == [status : Statuses, retry_after : RetryAfters]

\* r.headers.get("Retry-After", default), as an integer
RetryAfter(r, default) == IF r.retry_after = None THEN default ELSE r.retry_after[1]

\* one pass of the loop of fetch_matches_10k.get_json on the response r
get_json_10k(r) ==
    IF r.status = 429
    THEN [outcome |-> "retry", sleep |-> RetryAfter(r, 5) + 1]
    ELSE IF r.status >= 500
    THEN [outcome |-> "retry", sleep |-> 10]
    ELSE IF r.status >= 400
    THEN [outcome |-> "raise", sleep |-> 0]
    ELSE [outcome |-> "return", sleep |-> 0]

\* one pass of the loop of fetch_data.get_json on the response r
get_json_fetch_data(r) ==
    IF r.status = 429
    THEN [outcome |-> "retry", sleep |-> RetryAfter(r, 2)]
    ELSE IF r.status >= 400
    THEN [outcome |-> "raise", sleep |-> 0]
    ELSE [outcome |-> "return", sleep |-> 0]

Helpers == {"fetch_matches_10k", "fetch_data"}

get_json(h, r) ==
    IF h = "fetch_matches_10k" THEN get_json_10k(r) ELSE get_json_fetch_data(r)

\* longest sequence of responses the upstream gives to one call
MaxResponses == 3

GetInit ==
    /\ helper \in Helpers
    /\ responses \in SeqsUpTo(Responses, MaxResponses)
    /\ answered = <<>>
    /\ slept = <<>>
    /\ observed = None

GetIdle ==
    /\ helper = "fetch_data" /\ responses = <<>> /\ answered = <<>>
    /\ slept = <<>> /\ observed = None

\* one pass of "while True" in get_json: the request is issued, the upstream
\* answers with the next response
GetJsonPass ==
    /\ observed = None
    /\ responses # <<>>
    /\ LET r == Head(responses)
           res == get_json(helper, r) IN
        /\ responses' = Tail(responses)
        /\ answered' = Append(answered, r)
        /\ slept' = Append(slept, res.sleep)
        /\ observed' = IF res.outcome = "retry" THEN None
                       ELSE Some([outcome |-> res.outcome, status |-> r.status])
    /\ UNCHANGED <<helper, keyVars, dbVars, crawlVars>>

-----------------------------------------------------------------------------
(* fetch_matches_10k.main: the upstream                                    *)

\* seed players of the ladder
Seeds == {"p1", "p2"}

\* the match identifier "M<n>"
MatchId(n) == <<77, 48 + n>>

\* count=200 of a page request, and the step of page_start
PageStep == 200

\* page_start at which main rotates to the next seed
RotateAt == 600

\* the number of matches to collect (10_000 in config_10k, scaled down)
TARGET_MATCHES == 2

\* the ranked match ids the upstream lists for a seed from offset start on
MatchIdsOf(puuid, start) ==
    CASE puuid = "p1" /\ start = 0 -> <<MatchId(1), MatchId(2)>>
      [] puuid = "p1" /\ start = PageStep -> <<MatchId(3)>>
      [] puuid = "p1" /\ start = 2 * PageStep -> <<MatchId(1)>>
      [] puuid = "p2" /\ start = 0 -> <<MatchId(2), MatchId(3)>>
      [] puuid = "p2" /\ start = PageStep -> <<MatchId(1)>>
      [] OTHER -> <<>>

Range(s) == {s[i] : i \in DOMAIN s}

\* the lists without repetition of the elements of S
Orderings(S) == {l \in [1..Cardinality(S) -> S] : Range(l) = S}

\* what a call of fetch_ladder_puuids may end with: an exception of get_json,
\* or the seeds of the ladder entries (a set), shuffled
fetch_ladder_puuids ==
    {[raised |-> TRUE, puuids |-> <<>>]}
        \cup {[raised |-> FALSE, puuids |-> l] : l \in UNION {Orderings(S) : S \in SUBSET Seeds}}

-----------------------------------------------------------------------------
(* fetch_matches_10k.main: files                                           *)

\* a list of the elements of a set, in some order
RECURSIVE list(_)
list(S) == IF S = {} THEN <<>> ELSE LET x == CHOOSE y \in S : TRUE IN <<x>> \o list(S \ {x})

\* a start that ignores the files
load_json_ignoring_file(file, default) == default

\* lines 45-49
load_json(file, default) == IF file = None THEN default ELSE file[1]

\* the document json.dump writes and os.replace puts in place
save_json(obj) == Some(obj)

\* config_10k.py: the two files of the crawl
SEEN_PATH == "data/match_id_seen_10k.json"
STATE_PATH == "data/fetch_state_10k.json"

\* a save that writes the file itself
in_place(path) == path

\* line 52: tmp = path + ".tmp"
tmp(path) == path \o ".tmp"

\* what a file that was opened for writing holds until the document is whole:
\* nothing, or the beginning of the text
PartlyWritten == <<"{", "...">>

\* json.load succeeds on a whole document (and load_json does not open an
\* absent file)
parses(file) == file = None \/ Len(file) = 1

\* the four files by path
Disk ==
    (SEEN_PATH :> seenFile) @@ (STATE_PATH :> stateFile)
        @@ ((SEEN_PATH \o ".tmp") :> tmpSeen) @@ ((STATE_PATH \o ".tmp") :> tmpState)

SetDisk(d) ==
    /\ seenFile' = d[SEEN_PATH]
    /\ stateFile' = d[STATE_PATH]
    /\ tmpSeen' = d[SEEN_PATH \o ".tmp"]
    /\ tmpState' = d[STATE_PATH \o ".tmp"]

already_downloaded(match_id) == match_id \in raw10k

DefaultState == [puuids |-> <<>>, puuid_idx |-> 0, page_start |-> 0]

-----------------------------------------------------------------------------
(* fetch_matches_10k.main: the process                                     *)

Ended == {"not_started", "done", "error", "killed"}

\* the process is gone: its locals with it
Forget ==
    /\ seen' = {} /\ puuids' = <<>> /\ puuid_idx' = 0 /\ page_start' = 0
    /\ match_ids' = <<>> /\ mi' = 0 /\ failed' = {}
    /\ saving' = None

\* interruptions and failed requests (429, 5xx, 4xx, no ladder) explored
MaxFaults == 3

\* one more of them happens
Fault == faults < MaxFaults /\ faults' = faults + 1

CrawlInit ==
    /\ pc = "not_started"
    /\ seen = {} /\ puuids = <<>> /\ puuid_idx = 0 /\ page_start = 0
    /\ match_ids = <<>> /\ mi = 0 /\ saving = None
    /\ seenFile = None /\ stateFile = None /\ raw10k = {}
    /\ tmpSeen = None /\ tmpState = None
    /\ faults = 0 /\ fetched = EmptyBag /\ fetchedBefore = {} /\ failed = {}

notCrawlVars == <<keyVars, dbVars, getVars>>

\* lines 51-53: save_json(path, obj) is called and opens the temporary file
\* for writing, which creates or truncates it; main goes on at back when
\* save_json has returned
BeginSave(path, obj, back) ==
    /\ saving' = Some([path |-> path, obj |-> obj, back |-> back])
    /\ SetDisk([Disk EXCEPT ![tmp(path)] = PartlyWritten])
    /\ pc' = "dump"

\* line 54 and the end of the with block: the document is written and the
\* temporary file closed
SaveDump ==
    /\ pc = "dump"
    /\ SetDisk([Disk EXCEPT ![tmp(saving[1].path)] = save_json(saving[1].obj)])
    /\ pc' = "replace"
    /\ UNCHANGED <<memVars, raw10k, histVars, notCrawlVars>>

\* line 55: os.replace(tmp, path), one rename; save_json returns
SaveReplace ==
    /\ pc = "replace"
    /\ LET path == saving[1].path
           moved == [Disk EXCEPT ![path] = Disk[tmp(path)]] IN
        SetDisk(IF tmp(path) = path THEN moved ELSE [moved EXCEPT ![tmp(path)] = None])
    /\ pc' = saving[1].back
    /\ saving' = None
    /\ UNCHANGED <<localVars, raw10k, histVars, notCrawlVars>>

\* lines 115-135: main starts, or starts again, from the files; json.load
\* raises on a file that is not a whole document
Start ==
    /\ pc \in Ended
    /\ IF ~parses(seenFile) \/ ~parses(stateFile)
       THEN pc' = "error" /\ UNCHANGED memVars
       ELSE LET state == load_json(stateFile, DefaultState) IN
            /\ seen' = Range(load_json(seenFile, <<>>))
            /\ puuids' = state.puuids
            /\ puuid_idx' = state.puuid_idx
            /\ page_start' = state.page_start
            /\ pc' = IF state.puuids = <<>> THEN "seed" ELSE "loop"
            /\ UNCHANGED <<match_ids, mi, saving>>
    /\ UNCHANGED <<diskVars, histVars, notCrawlVars>>

\* lines 124-129: no saved seed list
Seed(out) ==
    /\ pc = "seed"
    /\ IF out.raised
       THEN Fault /\ pc' = "error" /\ Forget /\ UNCHANGED diskFiles
       ELSE /\ IF out.puuids = <<>> THEN Fault ELSE UNCHANGED faults
            /\ puuids' = out.puuids
            /\ puuid_idx' = 0
            /\ page_start' = 0
            /\ BeginSave(STATE_PATH,
                         [puuids |-> out.puuids, puuid_idx |-> 0, page_start |-> 0], "loop")
            /\ UNCHANGED <<seen, match_ids, mi, failed>>
    /\ UNCHANGED <<raw10k, fetched, fetchedBefore, notCrawlVars>>

\* line 137, line 138, line 211
LoopCheck ==
    /\ pc = "loop"
    /\ IF Cardinality(seen) >= TARGET_MATCHES
       THEN pc' = "done" /\ Forget
       ELSE /\ pc' = IF puuid_idx >= Len(puuids) THEN "refresh" ELSE "page"
            /\ UNCHANGED <<memVars, failed>>
    /\ UNCHANGED <<diskVars, faults, fetched, fetchedBefore, notCrawlVars>>

\* lines 139-145: the seeds ran out; puuids[0] of an empty list is an IndexError
Refresh(out) ==
    /\ pc = "refresh"
    /\ IF out.raised \/ out.puuids = <<>>
       THEN Fault /\ pc' = "error" /\ Forget
       ELSE /\ puuids' = out.puuids
            /\ puuid_idx' = 0
            /\ page_start' = 0
            /\ pc' = "page"
            /\ UNCHANGED <<seen, match_ids, mi, saving, failed, faults>>
    /\ UNCHANGED <<diskVars, fetched, fetchedBefore, notCrawlVars>>

\* lines 147-164: the page request for puuids[puuid_idx] (0-based in main)
PageRequest(r) ==
    /\ pc = "page"
    /\ LET res == get_json_10k(r)
           ids == MatchIdsOf(puuids[puuid_idx + 1], page_start) IN
        CASE res.outcome = "retry" ->
                /\ Fault
                /\ UNCHANGED <<pc, memVars, diskFiles, failed>>
          [] res.outcome = "raise" ->
                /\ Fault
                /\ puuid_idx' = puuid_idx + 1
                /\ page_start' = 0
                /\ pc' = "loop"
                /\ UNCHANGED <<seen, puuids, match_ids, mi, saving, diskFiles, failed>>
          [] res.outcome = "return" /\ ids = <<>> ->
                /\ puuid_idx' = puuid_idx + 1
                /\ page_start' = 0
                /\ BeginSave(STATE_PATH,
                             [puuids |-> puuids, puuid_idx |-> puuid_idx + 1,
                              page_start |-> 0], "loop")
                /\ UNCHANGED <<seen, puuids, match_ids, mi, failed, faults>>
          [] res.outcome = "return" /\ ids # <<>> ->
                /\ match_ids' = ids
                /\ mi' = 1
                /\ failed' = {}
                /\ pc' = "match"
                /\ UNCHANGED <<seen, puuids, puuid_idx, page_start, saving, diskFiles, faults>>
    /\ UNCHANGED <<raw10k, fetched, fetchedBefore, notCrawlVars>>

\* PageOver with a fault: the break of line 168 is missing
PageOver_without_break == mi > Len(match_ids)

\* line 167: the for loop is over, or line 168 breaks out of it
PageOver == mi > Len(match_ids) \/ Cardinality(seen) >= TARGET_MATCHES

\* lines 167-171 and 199-209: the head of the for loop, and what follows it
ForMatch ==
    /\ pc = "match"
    /\ IF PageOver
       THEN LET next == page_start + PageStep
                rotate == next >= RotateAt
                idx == IF rotate THEN puuid_idx + 1 ELSE puuid_idx
                start == IF rotate THEN 0 ELSE next IN
            /\ puuid_idx' = idx
            /\ page_start' = start
            /\ BeginSave(STATE_PATH,
                         [puuids |-> puuids, puuid_idx |-> idx, page_start |-> start], "loop")
            /\ match_ids' = <<>>
            /\ mi' = 0
            /\ failed' = {}
       ELSE IF match_ids[mi] \in seen /\ already_downloaded(match_ids[mi])
       THEN /\ mi' = mi + 1
            /\ UNCHANGED <<pc, puuid_idx, page_start, saving, diskFiles, match_ids, failed>>
       ELSE /\ pc' = "detail"
            /\ UNCHANGED <<puuid_idx, page_start, saving, diskFiles, match_ids, mi, failed>>
    /\ UNCHANGED <<seen, puuids, raw10k, faults, fetched, fetchedBefore, notCrawlVars>>

\* lines 174-179: the detail request for match_ids[mi]
DetailRequest(r) ==
    /\ pc = "detail"
    /\ LET res == get_json_10k(r) IN
        CASE res.outcome = "retry" ->
                /\ Fault
                /\ UNCHANGED <<pc, mi, fetched, failed>>
          [] res.outcome = "raise" ->
                /\ Fault
                /\ mi' = mi + 1
                /\ failed' = failed \cup {match_ids[mi]}
                /\ pc' = "match"
                /\ UNCHANGED fetched
          [] res.outcome = "return" ->
                /\ fetched' = fetched (+) SetToBag({match_ids[mi]})
                /\ pc' = "write"
                /\ UNCHANGED <<mi, failed, faults>>
    /\ UNCHANGED <<seen, puuids, puuid_idx, page_start, match_ids, saving, diskVars,
                   fetchedBefore, notCrawlVars>>

\* WriteRaw with a fault: the id joins seen and no file is written
WriteRaw_without_file ==
    /\ pc = "write"
    /\ seen' = seen \cup {match_ids[mi]}
    /\ pc' = "save_seen"
    /\ UNCHANGED <<puuids, puuid_idx, page_start, match_ids, mi, saving, diskVars,
                   histVars, notCrawlVars>>

\* lines 182-186: the raw file is written, the id joins seen
WriteRaw ==
    /\ pc = "write"
    /\ raw10k' = raw10k \cup {match_ids[mi]}
    /\ seen' = seen \cup {match_ids[mi]}
    /\ pc' = "save_seen"
    /\ UNCHANGED <<puuids, puuid_idx, page_start, match_ids, mi, saving, diskFiles,
                   histVars, notCrawlVars>>

\* line 189
SaveSeen ==
    /\ pc = "save_seen"
    /\ BeginSave(SEEN_PATH, sorted(list(seen)), "save_state")
    /\ UNCHANGED <<localVars, raw10k, histVars, notCrawlVars>>

\* lines 190-192, and on to the next match id
SaveState ==
    /\ pc = "save_state"
    /\ BeginSave(STATE_PATH,
                 [puuids |-> puuids, puuid_idx |-> puuid_idx, page_start |-> page_start],
                 "match")
    /\ mi' = mi + 1
    /\ UNCHANGED <<seen, puuids, puuid_idx, page_start, match_ids, raw10k,
                   histVars, notCrawlVars>>

\* the process is killed (Ctrl-C, kill); the files stay as they are
Crash ==
    /\ pc \notin Ended
    /\ Fault
    /\ pc' = "killed"
    /\ Forget
    /\ fetchedBefore' = BagToSet(fetched)
    /\ UNCHANGED <<diskVars, fetched, notCrawlVars>>

\* a step of the process, the upstream answering its requests
CrawlStep ==
    \/ Start
    \/ \E out \in fetch_ladder_puuids : Seed(out)
    \/ LoopCheck
    \/ \E out \in fetch_ladder_puuids : Refresh(out)
    \/ \E r \in Responses : PageRequest(r)
    \/ ForMatch
    \/ \E r \in Responses : DetailRequest(r)
    \/ WriteRaw
    \/ SaveSeen
    \/ SaveState
    \/ SaveDump
    \/ SaveReplace

CrawlNext == CrawlStep \/ Crash

GetNext == GetJsonPass

-----------------------------------------------------------------------------
(* Specifications                                                          *)

DbNext ==
    \/ \E d \in DocIds : PutRaw(d)
    \/ \E d \in DocIds : RemoveRaw(d)
    \/ StartPipeline
    \/ RunBuildDb
    \/ RunStatsItem1
    \/ RunStatsItem2
    \/ RunStatsItem3

KeyNext == CallMakeItemsKey

InitOfDb == DbInit /\ KeyIdle /\ GetIdle /\ CrawlInit

SpecDb == InitOfDb /\ [][DbNext]_vars

InitOfKey == KeyInit /\ DbInit /\ GetIdle /\ CrawlInit

SpecKey == InitOfKey /\ [][KeyNext]_vars

InitOfGet == GetInit /\ KeyIdle /\ DbInit /\ CrawlInit

SpecGet == InitOfGet /\ [][GetNext]_vars

InitOfCrawl == CrawlInit /\ KeyIdle /\ DbInit /\ GetIdle

SpecCrawl == InitOfCrawl /\ [][CrawlNext]_vars

\* the process takes its next step, its requests are answered, and it is
\* started again when it has ended
SpecCrawlFair == SpecCrawl /\ WF_vars(CrawlStep)


-----------------------------------------------------------------------------
(* Vocabulary of the properties of the store and of the stats tables       *)

ScriptOf(k) == CASE k = 1 -> "item1" [] k = 2 -> "item2" [] k = 3 -> "item3"

StatsTable(k) == CASE k = 1 -> stats1 [] k = 2 -> stats2 [] k = 3 -> stats3

\* script k has completed since build_db last ran: its table was computed from
\* the store as it is now
Fresh(k) == exitOf[ScriptOf(k)] = "ok"

PatchOfMatch(mid) == (CHOOSE m \in matches : m.match_id = mid).patch_bucket

PlacementOf(mid, puuid) ==
    (CHOOSE pm \in player_match : pm.match_id = mid /\ pm.puuid = puuid).placement

\* the completed items of a loadout, as script k reads them from its key
CompletedItems(k, items_key) ==
    IF items_key = <<>> THEN <<>>
    ELSE CASE k = 1 -> FullItems1(items_key)
           [] k = 2 -> FullItems2(items_key)
           [] k = 3 -> FullItems3(items_key)

IsSorted(t) == \A i \in 1..(Len(t) - 1) : ~StrLess(t[i + 1], t[i])

\* combo is a sorted k-sub-multiset of the completed items of loadout row ul
Realises(k, ul, combo) ==
    /\ Len(combo) = k
    /\ IsSorted(combo)
    /\ BagOfSeq(combo) \sqsubseteq BagOfSeq(CompletedItems(k, ul.items_key))

\* the loadout rows of a champion in the matches of a patch
LoadoutsOf(patch, champ) ==
    { ul \in unit_loadout : ul.champion_id = champ /\ PatchOfMatch(ul.match_id) = patch }

\* the distinct (match, participant) pairs in which the champion appears
GamesOf(patch, champ) == { <<ul.match_id, ul.puuid>> : ul \in LoadoutsOf(patch, champ) }

\* the distinct (match, participant) pairs that realise a combination
RealisingGames(k, patch, champ, combo) ==
    { <<ul.match_id, ul.puuid>> :
        ul \in { u \in LoadoutsOf(patch, champ) : Realises(k, u, combo) } }

HasPlacement(g) == PlacementOf(g[1], g[2]) # None

PlacementSum(G) == SumOver(G, [g \in G |-> PlacementOf(g[1], g[2])[1]])

TopHalf(G) == { g \in G : PlacementOf(g[1], g[2])[1] <= 4 }

\* a stats row counts exactly the games of G: count, placement sum, top-half sum
CountsExactly(row, G) ==
    /\ row.n_games = Cardinality(G)
    /\ row.avg_place = <<PlacementSum(G), Cardinality(G)>>
    /\ row.top4_rate = <<Cardinality(TopHalf(G)), Cardinality(G)>>

-----------------------------------------------------------------------------
(* C2 *)

\* C2 (as claimed): ingesting a raw document a second time leaves the four
\* tables, row multiplicities included, exactly as the first ingestion left
\* them: for every document build_db.main has ingested, one more call of
\* ingest_one_match on it does not change the store.
C2_IngestTwiceEqualsOnce ==
    \A i \in DOMAIN ingested :
        ingest_one_match(Store, RawDocs[ingested[i]]).store = Store

-----------------------------------------------------------------------------
(* C3 *)

\* C3 (as claimed): after script k has run, n_games of every row of its table
\* is the number of distinct (match, participant) pairs that realise the row's
\* combination for the row's patch and champion.
C3_CountsEveryRealisingGame ==
    \A k \in 1..3 :
        Fresh(k) =>
            \A row \in StatsTable(k) :
                row.n_games = Cardinality(
                    RealisingGames(k, row.patch_bucket, row.champion_id, row.items))

\* C3 (amended): after script k has run, every row of its table has counted each
\* distinct (match, participant) pair with a known placement that realises the
\* row's combination exactly once, in n_games, in the placement sum and in the
\* top-half sum, whatever the number of index pairs, duplicate items or loadout
\* rows that yield the combination.
C3_CountsEachGameOnce ==
    \A k \in 1..3 :
        Fresh(k) =>
            \A row \in StatsTable(k) :
                CountsExactly(row,
                    { g \in RealisingGames(k, row.patch_bucket, row.champion_id, row.items) :
                        HasPlacement(g) })

\* a fresh k=2 row whose combination is realised by two loadout rows of the same
\* champion of the same participant in the same game
C3_Witness ==
    /\ Fresh(2)
    /\ \E row \in stats2 :
        \E u1, u2 \in LoadoutsOf(row.patch_bucket, row.champion_id) :
            /\ u1 # u2
            /\ u1.match_id = u2.match_id /\ u1.puuid = u2.puuid
            /\ Realises(2, u1, row.items) /\ Realises(2, u2, row.items)

-----------------------------------------------------------------------------
(* C4 *)

\* the combinations the row loop of script k produces for one pulled row
ProducedCombos(k, row) ==
    LET acc == CASE k = 1 -> RowBody1(EmptyAcc, row)
                 [] k = 2 -> RowBody2(EmptyAcc, row)
                 [] k = 3 -> RowBody3(EmptyAcc, row)
    IN { key[3] : key \in DOMAIN acc.count_games }

\* every k-tuple over the completed items of a row
CandidateCombos(k, row) ==
    LET items == CompletedItems(k, row.items_key)
    IN [1..k -> { items[i] : i \in DOMAIN items }]

\* the rows of a champion in a stats table, as (combination, n_games) pairs
CountsOf(k, patch, champ) ==
    { <<row.items, row.n_games>> :
        row \in { r \in StatsTable(k) : r.patch_bucket = patch /\ r.champion_id = champ } }

\* the only game of champion C in patch P1 is the one of document 4, where the
\* single unit of C holds [X, X, Y]
OnlyTheXXYGame == GamesOf("P1", "C") = { <<"M3", "a">> }

-----------------------------------------------------------------------------
(* C6 *)

\* the (patch, champion) pairs that have a baseline: a loadout row exists in a
\* match whose patch is not null
BaselineKeys ==
    { <<PatchOfMatch(ul.match_id), ul.champion_id>> :
        ul \in { u \in unit_loadout : PatchOfMatch(u.match_id) # NULL } }

\* C6: for every (patch, champion) with a non-null patch the baseline has one
\* row; its game count is the number of distinct (match, participant) pairs in
\* which the champion appears in unit_loadout, and its mean placement is the mean
\* of the placements of those pairs (a pair without a placement has none to
\* average), however many units or loadouts of the champion the pair has.
C6_BaselineOverDistinctGames ==
    /\ { <<b.patch_bucket, b.champion_id>> : b \in v_champ_baseline(Store) } = BaselineKeys
    /\ \A b \in v_champ_baseline(Store) :
        LET G == GamesOf(b.patch_bucket, b.champion_id)
            K == { g \in G : HasPlacement(g) }
        IN /\ b.n_games = Cardinality(G)
           /\ b.baseline_avg_place =
                  IF K = {} THEN None ELSE <<PlacementSum(K), Cardinality(K)>>

\* a participant has two loadout rows of one champion in one game
C6_Witness ==
    \E u1, u2 \in unit_loadout :
        /\ u1 # u2
        /\ u1.match_id = u2.match_id /\ u1.puuid = u2.puuid
        /\ u1.champion_id = u2.champion_id
        /\ PatchOfMatch(u1.match_id) # NULL

-----------------------------------------------------------------------------
(* C7 *)

\* the baseline mean of a (patch, champion), from the tables
BaselineMean(patch, champ) ==
    LET K == { g \in GamesOf(patch, champ) : HasPlacement(g) }
    IN IF K = {} THEN None ELSE <<PlacementSum(K), Cardinality(K)>>

Zero == <<0, 1>>

\* the games of champion C in patch P1 are those of documents 1 and 2: the items
\* X and Y both times, placements 2 and 6
TheTwoGameScenario == GamesOf("P1", "C") = { <<"M1", "a">>, <<"M2", "a">> }

\* C7: every row of a stats table that script k has just computed carries the
\* baseline of its own (patch, champion) and delta = avg_place - baseline, so
\* delta < 0 exactly when the combination's mean is below the baseline and
\* delta = 0 when they are equal; and in the two-game scenario the k=2 row (X, Y)
\* has count 2, mean 4, baseline 4, delta 0 and top-half rate 1/2.
C7_DeltaAgainstOwnBaseline ==
    /\ \A k \in 1..3 :
        Fresh(k) =>
            \A row \in StatsTable(k) :
                LET base == BaselineMean(row.patch_bucket, row.champion_id) IN
                /\ base # None
                /\ row.baseline_avg_place = base
                /\ row.delta = RatSub(row.avg_place, base)
                /\ RatLess(row.delta, Zero) <=> RatLess(row.avg_place, base)
                /\ RatEq(row.delta, Zero) <=> RatEq(row.avg_place, base)
    /\ TheTwoGameScenario /\ Fresh(2) =>
        /\ CountsOf(2, "P1", "C") = { <<<<ItemX, ItemY>>, 2>> }
        /\ \A row \in { r \in stats2 : r.patch_bucket = "P1" /\ r.champion_id = "C" } :
            /\ RatEq(row.avg_place, <<4, 1>>)
            /\ RatEq(row.baseline_avg_place, <<4, 1>>)
            /\ RatEq(row.delta, Zero)
            /\ RatEq(row.top4_rate, <<1, 2>>)

\* the two-game scenario, aggregated for k=2
C7_Witness ==
    /\ TheTwoGameScenario
    /\ Fresh(2)
    /\ \E row \in stats2 : row.patch_bucket = "P1" /\ row.n_games = 2

-----------------------------------------------------------------------------
(* C8 *)

\* what script k computes from a store built from the raw directory alone
StatsOfCorpus(k, dir) ==
    LET fresh == build_db_main(EmptyStore, dir).store
    IN CASE k = 1 -> stats_item1_main(fresh, {}).table
         [] k = 2 -> stats_item2_main(fresh, {}).table
         [] k = 3 -> stats_item3_main(fresh, {}).table

\* build_db.main has ingested every file of the raw directory as it is now
IngestedTheCorpus == exitOf["build_db"] = "ok" /\ ingested = SortedFiles(rawDir)

\* C8 (as claimed): once build_db.main has ingested the current raw directory
\* and script k has run, the table of script k holds exactly the rows, with the
\* counts, that the raw records now in the directory give rise to.
C8_StatsReflectTheCorpus ==
    \A k \in 1..3 :
        IngestedTheCorpus /\ Fresh(k) => StatsTable(k) = StatsOfCorpus(k, rawDir)

-----------------------------------------------------------------------------
(* C10 *)

\* json.load succeeds and no required key is missing
WellFormed(d) ==
    /\ RawDocs[d].parses
    /\ {"metadata", "info"} \subseteq RawDocs[d].keys
    /\ \A i \in DOMAIN RawDocs[d].info.participants :
            RawDocs[d].info.participants[i].puuid # MISSING

\* C10 (as claimed): a run of build_db.main over a directory that holds a
\* malformed record ends without an exception, having ingested every other
\* file of the directory.
C10_MalformedRecordIsSkipped ==
    [][ RunBuildDb /\ rawDir # {} =>
            /\ exitOf'["build_db"] = "ok"
            /\ ingested' = SelectSeq(SortedFiles(rawDir), WellFormed) ]_vars

-----------------------------------------------------------------------------
(* C5 *)

SameMultiset(A, B) == BagOfSeq(A) = BagOfSeq(B)

-----------------------------------------------------------------------------
(* C1: resumability of fetch_matches_10k.main                              *)

\* the seen-set as the file holds it
PersistedSeen == IF seenFile = None THEN {} ELSE Range(seenFile[1])

\* the for loop went through the whole page
PageProcessed == pc = "match" /\ mi > Len(match_ids)

\* the crawl was interrupted after a successful match-detail fetch
InterruptedAfterFetch == fetchedBefore # {}

\* a detail request is being issued for a match fetched before the interruption
RequestsFetchedAgain == pc = "detail" /\ match_ids[mi] \in fetchedBefore

\* a page has been processed and a match listed on it is not in the seen-set
LeavesGap == PageProcessed /\ \E i \in DOMAIN match_ids : match_ids[i] \notin seen

\* the restarted crawl ends with the target count collected
RestartReachesTarget == (pc = "killed") ~> (pc = "done")

-----------------------------------------------------------------------------
(* C9: the retry policy of get_json                                        *)

TooManyRequests(r) == r.status = 429
ServerError(r) == r.status >= 500
ClientError(r) == r.status >= 400 /\ r.status < 500 /\ r.status # 429

\* the i-th response ended the call
Ends(i) == observed # None /\ i = Len(answered)

\* C9: for both helpers, a 429 makes get_json sleep and issue the request
\* again, a 5xx makes it sleep a fixed interval and issue the request again,
\* any other 4xx makes it raise at once; the caller never observes a 429 or a
\* 5xx, only a JSON body or a permanent client error.
C9_RetryPolicyOfBothHelpers ==
    \A i \in DOMAIN answered :
        LET r == answered[i] IN
        /\ TooManyRequests(r) => ~Ends(i) /\ slept[i] > 0
        /\ ServerError(r) => ~Ends(i) /\ slept[i] = 10
        /\ ClientError(r) => Ends(i) /\ observed[1].outcome = "raise" /\ slept[i] = 0
        /\ r.status < 400 => Ends(i) /\ observed[1].outcome = "return"

-----------------------------------------------------------------------------
(* C11: permanent upstream errors during the crawl                         *)

\* the step is a request of main that get_json ended by raising on a 4xx
PageRaises == \E r \in Responses : ClientError(r) /\ PageRequest(r)
DetailRaises == \E r \in Responses : ClientError(r) /\ DetailRequest(r)
SeedingRaises == \E out \in fetch_ladder_puuids : out.raised /\ (Seed(out) \/ Refresh(out))

\* C11: a permanent upstream error (a 4xx other than 429) raised by a request
\* of the crawl (seeding, page fetch, detail fetch) aborts only that fetch:
\* the crawl goes on with the next unit of work, the run does not end.
C11_PermanentErrorAbortsOnlyTheFetch ==
    [][ /\ PageRaises => pc' = "loop" /\ puuid_idx' = puuid_idx + 1
        /\ DetailRaises => pc' = "match" /\ mi' = mi + 1
        /\ SeedingRaises => pc' \notin Ended ]_vars

-----------------------------------------------------------------------------
(* C12: one unit_loadout row per unit                                      *)

\* the store is what ingesting document d alone into an empty store leaves
IngestedAlone(d) ==
    /\ ingested = <<d>>
    /\ Store = ingest_one_match(EmptyStore, RawDocs[d]).store

\* the units of a document, by position: <<participant index, unit index>>
UnitPositions(doc) ==
    {<<i, j>> \in (DOMAIN doc.info.participants) \X (1..3) :
        j \in DOMAIN doc.info.participants[i].units}

\* the unit_loadout row of the unit at a position
LoadoutRowOf(doc, pos) ==
    LET p == doc.info.participants[pos[1]]
        u == p.units[pos[2]] IN
    [match_id |-> doc.metadata.match_id, puuid |-> p.puuid,
     champion_id |-> u.character_id, unit_tier |-> u.tier,
     items_key |-> make_items_key(u.itemNames)]

\* C12: after ingest_one_match of a record into an empty store, unit_loadout
\* holds exactly one row for every unit of every participant, units counted by
\* position and not by value, units without items included; the row's
\* items_key is make_items_key of the unit's items.
C12_OneLoadoutRowPerUnit ==
    \A d \in DocIds :
        IngestedAlone(d) =>
            /\ \A pos \in UnitPositions(RawDocs[d]) : LoadoutRowOf(RawDocs[d], pos) \in unit_loadout
            /\ Cardinality(unit_loadout) = Cardinality(UnitPositions(RawDocs[d]))

-----------------------------------------------------------------------------
(* C13: a participant without placement                                    *)

\* the participants without placement of the documents build_db.main ingested
IngestedWithoutPlacement ==
    UNION { { <<RawDocs[d].metadata.match_id, p.puuid>> :
                p \in { q \in Range(RawDocs[d].info.participants) : q.placement = None } } :
            d \in Range(ingested) }

HoldsNullPlacement == \E pm \in player_match : pm.placement = None

\* C13: a participant whose placement is absent is written to player_match
\* with placement null; every aggregation run (k = 1, 2, 3) over a store with
\* such a row completes normally, the null-placement games counted in no
\* combination count, placement sum or top-half sum.
C13_NullPlacementIsFilteredOut ==
    /\ \A g \in IngestedWithoutPlacement :
          \E pm \in player_match :
              pm.match_id = g[1] /\ pm.puuid = g[2] /\ pm.placement = None
    /\ HoldsNullPlacement =>
          \A k \in 1..3 :
              /\ exitOf[ScriptOf(k)] # "error"
              /\ Fresh(k) =>
                    \A row \in StatsTable(k) :
                        CountsExactly(row,
                            { g \in RealisingGames(k, row.patch_bucket, row.champion_id, row.items) :
                                HasPlacement(g) })

-----------------------------------------------------------------------------
(* C14: a unit without items                                               *)

\* the no-items sentinel of make_items_key: the empty string
NoItems == <<>>

\* the unit_loadout rows build_db.main owes to the units without items of the
\* documents it ingested
NakedRowsIngested ==
    UNION { { LoadoutRowOf(RawDocs[d], pos) :
                pos \in { q \in UnitPositions(RawDocs[d]) :
                            RawDocs[d].info.participants[q[1]].units[q[2]].itemNames = <<>> } } :
            d \in Range(ingested) }

\* the appearance of loadout row ul is counted in the baseline of its patch
\* and champion
InBaseline(ul) ==
    \E b \in v_champ_baseline(Store) :
        /\ b.patch_bucket = PatchOfMatch(ul.match_id)
        /\ b.champion_id = ul.champion_id
        /\ <<ul.match_id, ul.puuid>> \in GamesOf(b.patch_bucket, b.champion_id)
        /\ b.n_games = Cardinality(GamesOf(b.patch_bucket, b.champion_id))

\* the games in which some loadout of the champion has at least k completed
\* items that include the combination
GamesWithEnoughItems(k, row) ==
    { <<ul.match_id, ul.puuid>> :
        ul \in { u \in LoadoutsOf(row.patch_bucket, row.champion_id) :
                    /\ u.items_key # NoItems
                    /\ Len(CompletedItems(k, u.items_key)) >= k
                    /\ Realises(k, u, row.items) } }

-----------------------------------------------------------------------------
(* C15: a match without patch bucket                                       *)

NullPatchMatches == { m.match_id : m \in { x \in matches : x.patch_bucket = NULL } }

\* the store without the rows of the matches whose patch_bucket is null
StoreOfPatchedMatches ==
    LET keep(rows) == { r \in rows : r.match_id \notin NullPatchMatches } IN
    [matches |-> keep(matches),
     player_match |-> keep(player_match),
     unit_loadout |-> keep(unit_loadout),
     unit_item |-> [r \in keep(DOMAIN unit_item) |-> unit_item[r]]]

\* the table script k computes from a store
StatsOf(k, s) ==
    CASE k = 1 -> stats_item1_main(s, {}).table
      [] k = 2 -> stats_item2_main(s, {}).table
      [] k = 3 -> stats_item3_main(s, {}).table

\* C15: a match whose patch_bucket is null contributes to no baseline and to
\* no stat row: the baseline view and, for every k, the rows of the stats table
\* are what they would be without those matches, and no row of a stats table
\* has a null patch_bucket.
C15_NullPatchContributesNothing ==
    /\ v_champ_baseline(Store) = v_champ_baseline(StoreOfPatchedMatches)
    /\ \A b \in v_champ_baseline(Store) : b.patch_bucket # NULL
    /\ \A k \in 1..3 :
          /\ \A row \in StatsTable(k) : row.patch_bucket # NULL
          /\ Fresh(k) => StatsTable(k) = StatsOf(k, StoreOfPatchedMatches)

\* documents 1 and 5 went through the pipeline: match M4 has no patch bucket,
\* and the tables hold the rows of champion C from match M1 alone
C15_Witness ==
    /\ "M4" \in NullPatchMatches
    /\ \E ul \in unit_loadout : ul.match_id = "M4" /\ ul.champion_id = "C"
    /\ Fresh(1) /\ Fresh(2) /\ Fresh(3)
    /\ \E b \in v_champ_baseline(Store) : b.champion_id = "C" /\ b.n_games = 1
    /\ \E row \in stats2 : row.champion_id = "C" /\ row.n_games = 1
    /\ \E row \in stats1 : row.champion_id = "C" /\ row.n_games = 1

-----------------------------------------------------------------------------
(* C16: one exclusion list                                                 *)

is_full_item(k, item) ==
    CASE k = 1 -> is_full_item1(item)
      [] k = 2 -> is_full_item2(item)
      [] k = 3 -> is_full_item3(item)

\* the item identifiers met: the empty one, those of the raw documents and
\* those of the three exclusion lists
ItemIds ==
    {<<>>, ItemX, ItemY}
       \cup COMPONENTS_item1 \cup BASIC_COMPONENTS \cup COMPONENTS_item3

ItemsOfRow(row) == { row.items[i] : i \in DOMAIN row.items }

\* C16: is_full_item returns the same result for every item identifier in the
\* three scripts, and an identifier excluded for one k appears in no row of any
\* of the three stats tables.
C16_SameExclusionListForEveryK ==
    /\ \A item \in ItemIds : \A j, k \in 1..3 :
          is_full_item(j, item) = is_full_item(k, item)
    /\ \A item \in ItemIds :
          (\E j \in 1..3 : ~is_full_item(j, item))
             => \A k \in 1..3 : \A row \in StatsTable(k) : item \notin ItemsOfRow(row)

-----------------------------------------------------------------------------
(* C17: the order of ingestion                                             *)

\* the records json.load returns
Records == { d \in DocIds : RawDocs[d].parses }

Then(s, a, b) == ingest_one_match(ingest_one_match(s, RawDocs[a]).store, RawDocs[b]).store

\* C17: for any two raw records a and b and any store, ingest_one_match of a
\* then b leaves the same rows in matches, player_match, unit_item (a bag) and
\* unit_loadout as b then a; and build_db.main gives the same store whatever
\* the order in which it takes the raw files.
C17_IngestionIsOrderIndependent ==
    /\ \A a, b \in Records : Then(Store, a, b) = Then(Store, b, a)
    /\ rawDir # {} =>
          \A files \in Orderings(rawDir) :
              IngestFiles(Store, files, <<>>).store = build_db_main(Store, rawDir).store

-----------------------------------------------------------------------------
(* C18: progress is persisted before the next request                      *)

\* the files hold the seed list, the index, the offset and the seen-set of main
Persisted ==
    /\ stateFile = Some([puuids |-> puuids, puuid_idx |-> puuid_idx, page_start |-> page_start])
    /\ PersistedSeen = seen

\* the steps in which main is through with a request that succeeded and goes
\* on to the next one: a seed refresh; and the return of the save_json that
\* ends a page without ids (line 163), a match detail (line 192) or a page
\* whose ids were all dealt with (line 209)
RefreshDone == pc = "refresh" /\ pc' = "page"
UnitDone == pc = "replace" /\ saving[1].path = STATE_PATH /\ pc' \in {"loop", "match"}

\* C18: every successful unit of work (seed refresh, page fetch, match-detail
\* fetch) is persisted before the next request is issued: when main is through
\* with it, the files hold the seed list, seed index, page offset and seen-set
\* that main has in memory.
C18_ProgressPersistedBeforeNextRequest ==
    [][ (RefreshDone \/ UnitDone) => Persisted' ]_vars

-----------------------------------------------------------------------------
(* C19: the state files are replaced, never rewritten                      *)

\* the file changes in this step, and only to the whole document of the
\* save_json under way for that path
ReplacedByNewDocument(path) ==
    Disk'[path] # Disk[path] =>
        /\ saving # None
        /\ saving[1].path = path
        /\ Disk'[path] = Some(saving[1].obj)

\* main starts from the files an interrupted run left and gets past json.load
ReloadParses == (pc = "killed" /\ pc' # pc) => pc' \in {"seed", "loop"}

\* C19: at every instant, a crash at any step inside save_json included, the
\* file at the seen-set path and the file at the crawl-position path each hold
\* the complete previous document (or are absent, before the first save) or the
\* complete new document, never a partly written one; and a reload after the
\* crash parses.
C19_StateFilesAreReplacedAtomically ==
    /\ [](parses(seenFile) /\ parses(stateFile))
    /\ [][ /\ ReplacedByNewDocument(SEEN_PATH)
           /\ ReplacedByNewDocument(STATE_PATH)
           /\ ReloadParses ]_vars

\* the process was killed inside save_json(SEEN_PATH, ...), the temporary file
\* open and not yet whole, while both files hold the documents saved before
C19_Witness ==
    /\ pc = "killed"
    /\ tmpSeen = PartlyWritten
    /\ seenFile # None /\ parses(seenFile)
    /\ stateFile # None /\ parses(stateFile)
    /\ Cardinality(raw10k) > Len(seenFile[1])

-----------------------------------------------------------------------------
(* C20: the target count ends the crawl                                    *)

TargetReached == Cardinality(seen) >= TARGET_MATCHES

\* main is about to send a request of the loop: the ladder requests of a
\* refresh, a page request, a match-detail request
InLoopRequest == pc \in {"refresh", "page", "detail"}

\* main leaves the while loop and prints "Done!"
NormalExit == pc # "done" /\ pc' = "done"

\* C20: main issues no match-detail request, and no page request, while the
\* seen-set holds the target number of matches: the condition is checked before
\* each of them and the loop is left as soon as it holds; the seen-set never
\* grows beyond the target; and on normal exit it holds at least the target.
C20_TargetEndsTheCrawl ==
    /\ [](TargetReached => ~InLoopRequest /\ pc # "write")
    /\ [](Cardinality(seen) <= TARGET_MATCHES)
    /\ [][ /\ NormalExit => TargetReached
           /\ (TargetReached /\ pc = "loop") => pc' \in {"done", "killed"} ]_vars

\* the target was reached on the first id of a page: the for loop is at the
\* second one, which is not in the seen-set and will not be requested
C20_Witness ==
    /\ pc = "match"
    /\ Cardinality(seen) = TARGET_MATCHES
    /\ mi <= Len(match_ids)
    /\ match_ids[mi] \notin seen

-----------------------------------------------------------------------------
(* C21: seed rotation                                                      *)

\* the page request of the current seed came back with no ids
PageCameBackEmpty ==
    /\ pc = "page"
    /\ MatchIdsOf(puuids[puuid_idx + 1], page_start) = <<>>
    /\ \E r \in Responses : get_json_10k(r).outcome = "return" /\ PageRequest(r)

\* the for loop over the ids of a page is left (lines 199-209 follow)
PageIsProcessed == pc = "match" /\ PageOver /\ ForMatch

ThirdPage == page_start = 2 * PageStep

\* a fresh seed list has been fetched
Refreshed == pc = "refresh" /\ pc' = "page"

NextSeed == puuid_idx' = puuid_idx + 1 /\ page_start' = 0
NextPage == puuid_idx' = puuid_idx /\ page_start' = page_start + PageStep

\* a step of the running loop that moves the crawl position
PositionMoves ==
    /\ pc \in {"loop", "refresh", "page", "match", "detail", "write",
               "save_seen", "save_state", "dump", "replace"}
    /\ pc' \notin Ended
    /\ <<puuid_idx, page_start>>' # <<puuid_idx, page_start>>

\* C21: the seed index advances by one, the page offset reset to 0, when and
\* only when the page of the current seed came back empty or its third page
\* (offsets 0, 200, 400) has been processed; otherwise the offset advances by
\* 200 for the same seed; when the index has passed the end of the seed list a
\* fresh list is fetched and the crawl restarts at index 0, offset 0; and the
\* offset of every page request is 0, 200 or 400.
C21_SeedRotation ==
    /\ [][ /\ PageCameBackEmpty => NextSeed
           /\ (PageIsProcessed /\ ThirdPage) => NextSeed
           /\ (PageIsProcessed /\ ~ThirdPage) => NextPage
           /\ Refreshed => puuid_idx >= Len(puuids) /\ puuid_idx' = 0 /\ page_start' = 0
           /\ PositionMoves =>
                 PageCameBackEmpty \/ PageIsProcessed \/ Refreshed ]_vars
    /\ [](pc = "refresh" => puuid_idx >= Len(puuids))
    /\ [](pc = "page" => page_start \in {0, PageStep, 2 * PageStep})

-----------------------------------------------------------------------------
(* C22: the seen-set and the raw files                                     *)

\* the for loop is at an id whose raw file is on disk and which is not in the
\* seen-set
AtUnseenFile ==
    /\ pc = "match"
    /\ ~PageOver
    /\ match_ids[mi] \in raw10k
    /\ match_ids[mi] \notin seen

\* C22: every match id of the persisted seen-set has its raw file on disk, in
\* every reachable state, those left by a kill at any step included; and a
\* match whose file is on disk while its id is not in the seen-set is fetched
\* again, not skipped.
C22_SeenMatchesHaveTheirFile ==
    /\ [](PersistedSeen \subseteq raw10k)
    /\ [][ AtUnseenFile => pc' = "killed" \/ (pc' = "detail" /\ mi' = mi) ]_vars

\* the run was killed after the raw file of a match was written and before the
\* seen-set was saved; started again, it requests that match once more
C22_Witness ==
    /\ pc = "detail"
    /\ match_ids[mi] \in raw10k
    /\ match_ids[mi] \in fetchedBefore
    /\ match_ids[mi] \notin PersistedSeen
    /\ PersistedSeen # {}

-----------------------------------------------------------------------------
(* C23: the seed index stays inside the seed list                          *)

IndexInRange(idx, l) == 0 <= idx /\ idx < Len(l)

\* line 145 is reached after the refresh of lines 139-143, fetch_ladder_puuids
\* having returned out.puuids
ReadsAfterRefresh(out) == ~out.raised /\ Refresh(out)

\* C23: whenever main reads puuids[puuid_idx] the index satisfies
\* 0 <= puuid_idx < len(puuids): at every page request, whatever rotations,
\* failed page fetches and restarts came before, and right after a seed
\* refresh, whatever list fetch_ladder_puuids returned, an empty one included.
C23_SeedIndexInRange ==
    /\ [](pc = "page" => IndexInRange(puuid_idx, puuids))
    /\ [][ \A out \in fetch_ladder_puuids :
              ReadsAfterRefresh(out) => IndexInRange(0, out.puuids) /\ pc' = "page" ]_vars

====
